---- MODULE Spec2Model ----
(***************************************************************************)
(* Model of the task manager's client-side synchronisation: the TodoList   *)
(* component (local task collection, change-feed handlers, addTodo,        *)
(* deleteTodo, updateTodoAssignment, updateTodoDueDate), the Notification  *)
(* component (local notification view and unread counter) and the          *)
(* notification dispatcher, against a store that offers row CRUD, row      *)
(* level security and a change feed scoped by row filters.                 *)
(***************************************************************************)
EXTENDS Integers, Sequences, FiniteSets, TLC

(***************************************************************************)
(* Bounds of the model.                                                    *)
(***************************************************************************)
MaxTasks == 2
MaxOps == 3
MaxInFlight == 2
MaxNotes == 3
MaxMarks == 3
MaxInFlightMarks == 2
MaxCapNotes == 21
MaxDay == 2
MaxReplay == 2
MaxToggles == 2
MaxInFlightToggles == 2

(***************************************************************************)
(* Users.  Me is the signed-in actor (useUser()), Other a second valid     *)
(* user running the same application, Ghost a user id that the user        *)
(* directory still lists but that no longer exists in the store.           *)
(***************************************************************************)
Me == "me"
Other == "u2"
Ghost == "ghost"
Null == "null"
ValidUsers == {Me, Other}
Directory == {Me, Other, Ghost}

NoDate == -1
SomeDate == 0
DueDates == {NoDate, SomeDate}

\* the due date entered in the add-task form: addTodo copies it into the
\* row without reading it, and one value stands for all
FormDueDates == {SomeDate}

(***************************************************************************)
(* Rows of the todos table (Database['public']['Tables']['todos']['Row']). *)
(* created_by is always written equal to user_id and is not kept apart.    *)
(***************************************************************************)
TodoRow(i, owner, assignee, due, complete, text) ==
  [id |-> i, inserted_at |-> i, is_complete |-> complete, task |-> text,
   user_id |-> owner, assigned_to |-> assignee, due_date |-> due]

NullRow == TodoRow(0, Null, Null, NoDate, FALSE, <<>>)

VARIABLES
  store,        \* rows of the todos table
  nextId,       \* next identity value of the todos table
  todos,        \* TodoList: useState<Todos[]>
  loading,      \* TodoList: useState(true)
  errorText,    \* TodoList: useState('')
  fetch,        \* the fetchTodos call of the mount effect
  sub,          \* state of the 'public:todos' channel subscription
  feed,         \* change-feed events emitted and not yet delivered
  calls,        \* handler calls awaiting the store
  justDone,     \* the handler call that finished in the last step, if any
  nOps          \* handler calls and writes by the other user so far

taskVars == <<store, nextId, todos, loading, errorText, fetch, sub, feed,
              calls, justDone, nOps>>

VARIABLES
  notes,              \* rows of the notifications table addressed to Me
  nextNoteId,         \* next identity value of the notifications table
  notifications,      \* Notification: useState<NotificationType[]>([])
  unreadCount,        \* Notification: useState(0)
  showNotifications,  \* Notification: useState(false)
  nfetch,             \* the fetchNotifications call of the mount effect
  nsub,               \* state of the 'public:notifications' subscription
  nfeed,              \* INSERT events emitted and not yet delivered
  marks,              \* markAsRead / markAllAsRead calls awaiting the store
  markDone,           \* the mark call that finished in the last step, if any
  nMarks              \* mark calls made so far

feedVars == <<notes, nextNoteId, notifications, unreadCount, showNotifications,
              nfetch, nsub, nfeed, marks, markDone, nMarks>>

VARIABLES
  currentFilter,  \* TodoList: useState<FilterType>('all')
  filteredTodos,  \* TodoList: useState<Todos[]>([])
  now,            \* the instant new Date() returns, in hours
  zone,           \* offset of the browser's local time from UTC, in hours
  mounted,        \* whether TodoList (and the Notification in it) is rendered
  replayA,        \* first copy of a collection under replay of feed events
  replayB,        \* second copy
  nReplay,        \* events replayed so far
  replayLog       \* the steps replayed: each event with the first copy before it

VARIABLES
  isCompleted,    \* Todo rows rendered: task id -> useState(todo.is_complete)
  toggles,        \* toggle calls of the rows awaiting the store
  nToggles        \* toggle calls made so far

rowVars == <<isCompleted, toggles, nToggles>>

filterVars == <<currentFilter, filteredTodos, now, zone>>

replayVars == <<replayA, replayB, nReplay, replayLog>>

\* what the handlers of TodoList and Notification never write
sideVars == <<currentFilter, now, zone, mounted, replayVars, toggles, nToggles>>

vars == <<taskVars, feedVars, filterVars, mounted, replayVars, rowVars>>

(***************************************************************************)
(* Sequence helpers.                                                       *)
(***************************************************************************)
RemoveAt(s, k) == [j \in 1..(Len(s) - 1) |-> IF j < k THEN s[j] ELSE s[j + 1]]

RECURSIVE SortDesc(_)
SortDesc(S) ==
  IF S = {} THEN <<>>
  ELSE LET m == CHOOSE r \in S : \A q \in S : q.inserted_at <= r.inserted_at
       IN <<m>> \o SortDesc(S \ {m})

(***************************************************************************)
(* The store: row level security of the todos table and the filters of     *)
(* the two postgres_changes bindings of the 'public:todos' channel.        *)
(***************************************************************************)
CanSee(u, r) == r.user_id = u \/ r.assigned_to = u

\* an update policy that lets every user update every row
CanUpdate_Anyone(u, r) == TRUE

CanUpdate(u, r) == r.user_id = u \/ r.assigned_to = u

CanDelete(u, r) == r.user_id = u

\* bindings of the channel whose filter matches row r, in registration order
Matching(r) ==
  (IF r.user_id = Me THEN <<1>> ELSE <<>>) \o
  (IF r.assigned_to = Me THEN <<2>> ELSE <<>>)

\* the old record of an event carries the primary key only
KeyOnly(r) == TodoRow(r.id, Null, Null, NoDate, FALSE, <<>>)

\* the events the store emits on the channel for one row change: one per
\* matching binding; INSERT and UPDATE match on the new row, DELETE on the old
Emit(type, new, old) ==
  LET m == Matching(IF type = "DELETE" THEN old ELSE new) IN
  IF sub # "joined" THEN <<>>
  ELSE [k \in 1..Len(m) |->
          [eventType |-> type, new |-> new,
           old |-> IF type = "INSERT" THEN NullRow ELSE KeyOnly(old),
           binding |-> m[k]]]

\* the select answered in ascending order of inserted_at
SelectTodos_Ascending(u) ==
  LET d == SortDesc({r \in store : r.user_id = u \/ r.assigned_to = u})
  IN [k \in 1..Len(d) |-> d[Len(d) + 1 - k]]

\* select('*').or(user_id.eq.u, assigned_to.eq.u).order('inserted_at', desc)
SelectTodos(u) == SortDesc({r \in store : r.user_id = u \/ r.assigned_to = u})

RowsById(i) == {r \in store : r.id = i}

(***************************************************************************)
(* The handlers of the two postgres_changes bindings, applied to the        *)
(* current collection (the functional setTodos(prev => ...) form).  The    *)
(* source writes the handler out once per binding.                         *)
(***************************************************************************)
\* handler of the binding filtered by user_id, with an UPDATE for a task
\* the collection does not hold put at its head
OnUserIdEvent_Upsert(prev, e) ==
  IF e.eventType = "INSERT" THEN <<e.new>> \o prev
  ELSE IF e.eventType = "UPDATE"
    THEN IF \E k \in 1..Len(prev) : prev[k].id = e.new.id
         THEN [k \in 1..Len(prev) |->
                 IF prev[k].id = e.new.id THEN e.new ELSE prev[k]]
         ELSE <<e.new>> \o prev
  ELSE IF e.eventType = "DELETE"
    THEN SelectSeq(prev, LAMBDA t : t.id # e.old.id)
  ELSE prev

\* handler of the binding filtered by user_id
OnUserIdEvent(prev, e) ==
  IF e.eventType = "INSERT" THEN <<e.new>> \o prev
  ELSE IF e.eventType = "UPDATE"
    THEN [k \in 1..Len(prev) |-> IF prev[k].id = e.new.id THEN e.new ELSE prev[k]]
  ELSE IF e.eventType = "DELETE"
    THEN SelectSeq(prev, LAMBDA t : t.id # e.old.id)
  ELSE prev

\* handler of the binding filtered by assigned_to, with INSERT events put at
\* the end of the collection
OnAssignedToEvent_Appending(prev, e) ==
  IF e.eventType = "INSERT" THEN prev \o <<e.new>>
  ELSE IF e.eventType = "UPDATE"
    THEN [k \in 1..Len(prev) |-> IF prev[k].id = e.new.id THEN e.new ELSE prev[k]]
  ELSE IF e.eventType = "DELETE"
    THEN SelectSeq(prev, LAMBDA t : t.id # e.old.id)
  ELSE prev

\* handler of the binding filtered by assigned_to, with the DELETE case
\* reading the id of payload.new, which a DELETE event leaves empty
OnAssignedToEvent_DeleteByNew(prev, e) ==
  IF e.eventType = "INSERT" THEN <<e.new>> \o prev
  ELSE IF e.eventType = "UPDATE"
    THEN [k \in 1..Len(prev) |-> IF prev[k].id = e.new.id THEN e.new ELSE prev[k]]
  ELSE IF e.eventType = "DELETE"
    THEN SelectSeq(prev, LAMBDA t : t.id # e.new.id)
  ELSE prev

\* handler of the binding filtered by assigned_to
OnAssignedToEvent(prev, e) ==
  IF e.eventType = "INSERT" THEN <<e.new>> \o prev
  ELSE IF e.eventType = "UPDATE"
    THEN [k \in 1..Len(prev) |-> IF prev[k].id = e.new.id THEN e.new ELSE prev[k]]
  ELSE IF e.eventType = "DELETE"
    THEN SelectSeq(prev, LAMBDA t : t.id # e.old.id)
  ELSE prev

ApplyEvent(prev, e) ==
  IF e.binding = 1 THEN OnUserIdEvent(prev, e) ELSE OnAssignedToEvent(prev, e)

(***************************************************************************)
(* The filter effect of TodoList.  Instants are hours since the epoch;     *)
(* due dates come from the DatePicker, which stores midnight UTC of the    *)
(* day picked; the effect compares local midnights.                        *)
(***************************************************************************)
HoursPerDay == 24

\* offsets of local time from UTC, in hours
Zones == {-1, 0, 1}

Days == 1..MaxDay

Times == HoursPerDay..((MaxDay + 1) * HoursPerDay - 1)

FilterTypes == {"all", "assignedToMe", "createdByMe", "overdue", "dueToday"}

\* DatePicker: new Date('YYYY-MM-DD').toISOString()
PickDate(d) == d * HoursPerDay

\* the calendar day of instant t on the local clock
LocalDay(t, z) == (t + z) \div HoursPerDay

\* new Date(t) followed by setHours(0, 0, 0, 0): local midnight of the local
\* day that holds t
StartOfDay(t, z) == LocalDay(t, z) * HoursPerDay - z

\* the overdue test without the completion flag
IsOverdue_AnyCompletion(todo, today, z) ==
  /\ todo.due_date # NoDate
  /\ StartOfDay(todo.due_date, z) < today

IsOverdue(todo, today, z) ==
  /\ todo.due_date # NoDate
  /\ StartOfDay(todo.due_date, z) < today
  /\ ~todo.is_complete

IsDueToday(todo, today, z) ==
  /\ todo.due_date # NoDate
  /\ StartOfDay(todo.due_date, z) = today
  /\ ~todo.is_complete

\* a filter whose 'assignedToMe' and 'createdByMe' cases read each other's
\* column
Filter_ColumnsSwapped(ts, f, t, z) ==
  LET today == StartOfDay(t, z) IN
  IF Len(ts) = 0 THEN <<>>
  ELSE IF f = "assignedToMe" THEN SelectSeq(ts, LAMBDA x : x.user_id = Me)
  ELSE IF f = "createdByMe" THEN SelectSeq(ts, LAMBDA x : x.assigned_to = Me)
  ELSE IF f = "overdue" THEN SelectSeq(ts, LAMBDA x : IsOverdue(x, today, z))
  ELSE IF f = "dueToday" THEN SelectSeq(ts, LAMBDA x : IsDueToday(x, today, z))
  ELSE ts

\* what the effect passes to setFilteredTodos for collection ts, filter f and
\* new Date() = t in zone z
Filter(ts, f, t, z) ==
  LET today == StartOfDay(t, z) IN
  IF Len(ts) = 0 THEN <<>>
  ELSE IF f = "assignedToMe" THEN SelectSeq(ts, LAMBDA x : x.assigned_to = Me)
  ELSE IF f = "createdByMe" THEN SelectSeq(ts, LAMBDA x : x.user_id = Me)
  ELSE IF f = "overdue" THEN SelectSeq(ts, LAMBDA x : IsOverdue(x, today, z))
  ELSE IF f = "dueToday" THEN SelectSeq(ts, LAMBDA x : IsDueToday(x, today, z))
  ELSE ts

\* a state setter called with value new: React drops it once the component
\* is unmounted
Kept(new, old) == IF mounted THEN new ELSE old

\* no Todo row rendered
NoRows == [i \in {} |-> FALSE]

\* the state of the Todo rows once the list fts is rendered, old being their
\* state before: rows are keyed by task id, a row that stays keeps its state
\* and a row that appears starts from its task's is_complete
Rows(fts, old) ==
  [i \in {fts[k].id : k \in 1..Len(fts)} |->
     IF i \in DOMAIN old THEN old[i]
     ELSE LET k == CHOOSE k \in 1..Len(fts) :
                     fts[k].id = i /\ \A j \in 1..(k - 1) : fts[j].id # i
          IN fts[k].is_complete]

\* the rows after a render of list fts, none while loading is shown
Rendered(ld, fts, old) == IF ld THEN NoRows ELSE Rows(fts, old)

\* the effect runs again after every render that changed todos: that render
\* still shows the list of the previous filteredTodos, the next one the new
FilterEffect ==
  /\ filteredTodos' = Kept(Filter(todos', currentFilter, now, zone), filteredTodos)
  /\ isCompleted' = Kept(Rendered(loading', filteredTodos',
                                  Rendered(loading', filteredTodos, isCompleted)),
                         isCompleted)

NoCall == [op |-> "none"]

TaskInit ==
  /\ store = {}
  /\ nextId = 1
  /\ todos = <<>>
  /\ loading = TRUE
  /\ errorText = ""
  /\ fetch = [pc |-> "pending", ok |-> FALSE, data |-> <<>>]
  /\ sub = "joining"
  /\ feed = <<>>
  /\ calls = <<>>
  /\ justDone = NoCall
  /\ nOps = 0

FeedInit ==
  /\ notes = {}
  /\ nextNoteId = 1
  /\ notifications = <<>>
  /\ unreadCount = 0
  /\ showNotifications = FALSE
  /\ nfetch = [pc |-> "pending", ok |-> FALSE, data |-> <<>>]
  /\ nsub = "joining"
  /\ nfeed = <<>>
  /\ marks = <<>>
  /\ markDone = NoCall
  /\ nMarks = 0

SideInit ==
  /\ currentFilter = "all"
  /\ filteredTodos = <<>>
  /\ isCompleted = NoRows
  /\ now = HoursPerDay
  /\ zone = 0
  /\ mounted = TRUE
  /\ replayA = <<>>
  /\ replayB = <<>>
  /\ nReplay = 0
  /\ replayLog = <<>>
  /\ toggles = <<>>
  /\ nToggles = 0

Init == TaskInit /\ FeedInit /\ SideInit

(***************************************************************************)
(* Mount effect: fetchTodos and the channel subscription.                  *)
(***************************************************************************)
\* the store answers the select of fetchTodos, with the rows or with an error
fetchTodos_Exec ==
  /\ fetch.pc = "pending"
  /\ \E ok \in BOOLEAN :
       fetch' = [pc |-> "responded", ok |-> ok,
                 data |-> IF ok THEN SelectTodos(Me) ELSE <<>>]
  /\ justDone' = NoCall
  /\ UNCHANGED <<feedVars, sideVars, store, nextId, todos, loading, errorText, sub, feed, calls,
                 nOps>>
  /\ FilterEffect

\* fetchTodos resumes: setTodos(data) unless the select failed; finally
\* setLoading(false)
fetchTodos_Return ==
  /\ fetch.pc = "responded"
  /\ todos' = Kept(IF fetch.ok THEN fetch.data ELSE todos, todos)
  /\ loading' = Kept(FALSE, loading)
  /\ fetch' = [fetch EXCEPT !.pc = "done", !.data = <<>>]
  /\ justDone' = [op |-> "fetchTodos", ok |-> fetch.ok, data |-> fetch.data,
                  before |-> todos]
  /\ UNCHANGED <<feedVars, sideVars, store, nextId, errorText, sub, feed, calls, nOps>>
  /\ FilterEffect

\* the channel is joined: from now on the store emits events on it
Subscribe ==
  /\ sub = "joining"
  /\ sub' = "joined"
  /\ justDone' = NoCall
  /\ UNCHANGED <<feedVars, sideVars, store, nextId, todos, loading, errorText, fetch, feed, calls,
                 nOps>>
  /\ FilterEffect

\* the oldest undelivered event reaches its binding's handler
DeliverEvent ==
  /\ sub = "joined"
  /\ feed # <<>>
  /\ todos' = ApplyEvent(todos, Head(feed))
  /\ feed' = Tail(feed)
  /\ justDone' = NoCall
  /\ UNCHANGED <<feedVars, sideVars, store, nextId, loading, errorText, fetch, sub, calls, nOps>>
  /\ FilterEffect

(***************************************************************************)
(* The other user, running the same application against the same store.    *)
(***************************************************************************)
\* Other adds a task, unassigned or assigned to Me
Remote_addTodo ==
  /\ nOps < MaxOps
  /\ nextId <= MaxTasks
  /\ \E a \in {Null, Me} :
       LET row == TodoRow(nextId, Other, a, NoDate, FALSE, <<"a">>) IN
       /\ store' = store \cup {row}
       /\ feed' = feed \o Emit("INSERT", row, NullRow)
  /\ nextId' = nextId + 1
  /\ nOps' = nOps + 1
  /\ justDone' = NoCall
  /\ UNCHANGED <<feedVars, sideVars, todos, loading, errorText, fetch, sub, calls>>
  /\ FilterEffect

\* Other changes the assignee of a task
\* the update policy lets them change
Remote_update ==
  /\ nOps < MaxOps
  /\ \E r \in store :
       /\ CanUpdate(Other, r)
       /\ \E new \in {[r EXCEPT !.assigned_to = a] : a \in {Null, Me}} :
            /\ new # r
            /\ CanUpdate(Other, new)
            /\ store' = (store \ {r}) \cup {new}
            /\ feed' = feed \o Emit("UPDATE", new, r)
  /\ nOps' = nOps + 1
  /\ justDone' = NoCall
  /\ UNCHANGED <<feedVars, sideVars, nextId, todos, loading, errorText, fetch, sub, calls>>
  /\ FilterEffect

\* Other deletes one of their own tasks
Remote_delete ==
  /\ nOps < MaxOps
  /\ \E r \in store :
       /\ CanDelete(Other, r)
       /\ store' = store \ {r}
       /\ feed' = feed \o Emit("DELETE", NullRow, r)
  /\ nOps' = nOps + 1
  /\ justDone' = NoCall
  /\ UNCHANGED <<feedVars, sideVars, nextId, todos, loading, errorText, fetch, sub, calls>>
  /\ FilterEffect

(***************************************************************************)
(* Handler calls.  A call is made with the values its closure captured at  *)
(* the render it was created in (the todo row, the todos array, the form   *)
(* fields); the store processes each request when it is sent and the call  *)
(* resumes with the response in a later step.                              *)
(***************************************************************************)
FkMessage == "insert or update violates foreign key constraint"
OtherMessage == "request failed"
RlsMessage == "new row violates row-level security policy"
FkWarning == "Could not assign task: user not found in database"

\* the test made on the error code instead of the message
IsFkViolation_Code(msg) == msg = "23503"

\* error.message.includes(...) taken to hold for no message
IsFkViolation_Never(msg) == FALSE

\* error.message.includes(...) taken to hold for every message
IsFkViolation_Any(msg) == TRUE

\* error.message.includes('violates foreign key constraint')
IsFkViolation(msg) == msg = FkMessage

NoResp == [error |-> "", data |-> NullRow]

NewCall(op, t, text, u, d) ==
  [op |-> op, pc |-> "sent", todo |-> t, text |-> text, argUser |-> u,
   argDate |-> d, snap |-> todos, resp |-> NoResp, prev |-> NullRow,
   inserts |-> <<>>, notifs |-> <<>>, logged |-> 0, shown |-> "",
   outcome |-> "pending"]

\* a call as it is remembered once it has finished (without its captured array)
Finished(c, outcome) ==
  [op |-> c.op, todo |-> c.todo, text |-> c.text, argUser |-> c.argUser,
   error |-> c.resp.error,
   data |-> c.resp.data, prev |-> c.prev, inserts |-> c.inserts,
   notifs |-> c.notifs, logged |-> c.logged, shown |-> c.shown,
   outcome |-> outcome]

\* String.prototype.trim on a text of characters
RECURSIVE TrimStart(_)
TrimStart(s) == IF s # <<>> /\ Head(s) = " " THEN TrimStart(Tail(s)) ELSE s

RECURSIVE TrimEnd(_)
TrimEnd(s) ==
  IF s # <<>> /\ s[Len(s)] = " " THEN TrimEnd(SubSeq(s, 1, Len(s) - 1)) ELSE s

\* the text taken as typed
Trim_None(s) == s

Trim(s) == TrimEnd(TrimStart(s))

FormTexts == {<<>>, <<" ">>, <<" ", "a">>}

\* the options of a UserSelector rendered for Me: the directory without the
\* current user
SelectorOptions == Directory \ {Me}

\* the option a UserSelector shows as selected for value v
Displayed(v) == IF v \in SelectorOptions THEN v ELSE Null

(***************************************************************************)
(* The add-task form.  The values of newTaskText, newTaskAssignedTo and    *)
(* newTaskDueDate are taken as the inputs of addTodo at the moment the     *)
(* form is submitted; typing in the description also clears errorText.     *)
(***************************************************************************)
setNewTaskText ==
  /\ mounted
  /\ errorText # ""
  /\ errorText' = ""
  /\ justDone' = NoCall
  /\ UNCHANGED <<feedVars, sideVars, store, nextId, todos, loading, fetch, sub, feed, calls, nOps>>
  /\ FilterEffect

(***************************************************************************)
(* Store requests of the signed-in user.  Each yields the response and the *)
(* store's next state; any request may also fail for another reason        *)
(* (OtherMessage) and then changes nothing.                                *)
(***************************************************************************)
\* from('todos').insert(payload).select().single()
InsertOutcomes(payload) ==
  {[error |-> OtherMessage, data |-> NullRow, store |-> store, nextId |-> nextId,
    events |-> <<>>]} \cup
  (IF payload.assigned_to \notin ValidUsers \cup {Null}
   THEN {[error |-> FkMessage, data |-> NullRow, store |-> store,
          nextId |-> nextId, events |-> <<>>]}
   ELSE LET row == TodoRow(nextId, payload.user_id, payload.assigned_to,
                           payload.due_date, FALSE, payload.task) IN
        {[error |-> "", data |-> row, store |-> store \cup {row},
          nextId |-> nextId + 1, events |-> Emit("INSERT", row, NullRow)]})

\* the row r with one column set, as update({column: value}) leaves it
PatchRow(r, column, value) ==
  IF column = "assigned_to" THEN [r EXCEPT !.assigned_to = value]
  ELSE IF column = "due_date" THEN [r EXCEPT !.due_date = value]
  ELSE [r EXCEPT !.is_complete = value]

\* from('todos').update({column: value}).eq('id', i), followed by
\* .select().single() when single: the update policy hides other rows from
\* the caller, and single() answers an error when no row came back.  The
\* policy is declared with USING only, so its expression is also the check
\* the updated row has to pass; a row that fails it is refused before the
\* foreign keys are looked at.
UpdateOutcomes(i, column, value, single) ==
  LET hit == {r \in RowsById(i) : CanUpdate(Me, r)} IN
  {[error |-> OtherMessage, data |-> NullRow, prev |-> NullRow, store |-> store,
    events |-> <<>>]} \cup
  (IF hit = {}
   THEN IF single THEN {}
        ELSE {[error |-> "", data |-> NullRow, prev |-> NullRow,
               store |-> store, events |-> <<>>]}
   ELSE LET r == CHOOSE x \in hit : TRUE
            new == PatchRow(r, column, value) IN
        IF ~CanUpdate(Me, new)
        THEN {[error |-> RlsMessage, data |-> NullRow, prev |-> r,
               store |-> store, events |-> <<>>]}
        ELSE IF column = "assigned_to" /\ value \notin ValidUsers \cup {Null}
        THEN {[error |-> FkMessage, data |-> NullRow, prev |-> r,
               store |-> store, events |-> <<>>]}
        ELSE {[error |-> "", data |-> new, prev |-> r,
               store |-> (store \ {r}) \cup {new},
               events |-> Emit("UPDATE", new, r)]})

\* from('todos').delete().eq('id', i): rows the delete policy hides from the
\* caller are not deleted and no error is reported
DeleteOutcomes(i) ==
  LET hit == {r \in RowsById(i) : CanDelete(Me, r)} IN
  {[error |-> OtherMessage, store |-> store, events |-> <<>>]} \cup
  {[error |-> "", store |-> store \ hit,
    events |-> IF hit = {} THEN <<>>
               ELSE Emit("DELETE", NullRow, CHOOSE x \in hit : TRUE)]}

\* from('notifications').insert(...) inside createTaskAssignmentNotification:
\* stored, answered with an error, or thrown
NotifyResults == {"ok", "error", "thrown"}

MyEmail == "me@example.org"

\* todoResult.task || 'Untitled task'
Title(row) == IF row.task = <<>> THEN <<"Untitled task">> ELSE row.task

\* a notification addressed to the user who assigns instead of the assignee
NotificationPayload_ToAssigner(taskId, assigneeId, taskTitle, assignerEmail) ==
  [user_id |-> Me, task_id |-> taskId,
   message |-> <<assignerEmail, " assigned you a task: ", taskTitle>>,
   is_read |-> FALSE]

\* the row createTaskAssignmentNotification inserts into notifications
NotificationPayload(taskId, assigneeId, taskTitle, assignerEmail) ==
  [user_id |-> assigneeId, task_id |-> taskId,
   message |-> <<assignerEmail, " assigned you a task: ", taskTitle>>,
   is_read |-> FALSE]

\* a dispatch for every stored row, assigned or not
ShouldNotify_Always(row) == row # NullRow

\* the condition under which addTodo and updateTodoAssignment dispatch
ShouldNotify(row) ==
  row # NullRow /\ row.assigned_to # Null /\ row.assigned_to # Me

\* a dispatch that takes the task id and the assignee from the request
\* instead of the row the store returned
Dispatched_FromRequest(c, row, res) ==
  [c EXCEPT !.pc = "notify",
            !.notifs = Append(@, [payload |-> NotificationPayload(
                                     c.todo.id, c.argUser, Title(row), MyEmail),
                                  result |-> res])]

\* the call c once createTaskAssignmentNotification has sent its insert for
\* the stored row, the store answering with res
Dispatched(c, row, res) ==
  [c EXCEPT !.pc = "notify",
            !.notifs = Append(@, [payload |-> NotificationPayload(
                                     row.id, row.assigned_to, Title(row), MyEmail),
                                  result |-> res])]

\* createTaskAssignmentNotification that logs nothing
AfterDispatch_Silent(c) == c

\* createTaskAssignmentNotification resumes: a failed insert is logged
AfterDispatch(c) ==
  [c EXCEPT !.logged = IF c.notifs[Len(c.notifs)].result = "ok" THEN @ ELSE @ + 1]

\* a retry that sends the rejected payload once more
FallbackTodo_Same(newTodo) == newTodo

\* fallbackTodo = {...newTodo, assigned_to: null}
FallbackTodo(newTodo) == [newTodo EXCEPT !.assigned_to = Null]

CanCall == mounted /\ nOps < MaxOps /\ Len(calls) < MaxInFlight

(***************************************************************************)
(* addTodo                                                                 *)
(***************************************************************************)
addTodo_Call ==
  /\ CanCall
  /\ nOps' = nOps + 1
  /\ \E newTaskText \in FormTexts, newTaskAssignedTo \in SelectorOptions \cup {Null},
        newTaskDueDate \in FormDueDates :
       LET task == Trim(newTaskText)
           newTodo == [task |-> task, user_id |-> Me,
                       assigned_to |-> newTaskAssignedTo,
                       due_date |-> newTaskDueDate]
           c == NewCall("addTodo", NullRow, newTaskText, newTaskAssignedTo,
                        newTaskDueDate)
       IN IF Len(task) = 0
          THEN /\ justDone' = Finished(c, "rejected")
               /\ UNCHANGED <<store, nextId, feed, calls>>
          ELSE \E o \in InsertOutcomes(newTodo) :
                 /\ nextId <= MaxTasks
                 /\ store' = o.store
                 /\ nextId' = o.nextId
                 /\ feed' = feed \o o.events
                 /\ calls' = Append(calls,
                      [c EXCEPT !.resp = [error |-> o.error, data |-> o.data],
                                !.inserts = <<[payload |-> newTodo,
                                               error |-> o.error]>>])
                 /\ justDone' = NoCall
  /\ UNCHANGED <<feedVars, sideVars, todos, loading, errorText, fetch, sub>>
  /\ FilterEffect

\* the first insert has answered
addTodo_AfterInsert ==
  \E i \in 1..Len(calls) :
    LET c == calls[i] IN
    /\ c.op = "addTodo" /\ c.pc = "sent"
    /\ IF c.argUser # Null /\ c.resp.error # "" /\ IsFkViolation(c.resp.error)
       THEN \* retry without the assignment
            LET fallbackTodo == FallbackTodo(c.inserts[1].payload) IN
            \E o \in InsertOutcomes(fallbackTodo) :
              /\ store' = o.store
              /\ nextId' = o.nextId
              /\ feed' = feed \o o.events
              /\ calls' = [calls EXCEPT ![i] =
                   [c EXCEPT !.pc = "fallback",
                             !.resp = [error |-> o.error, data |-> o.data],
                             !.inserts = Append(@, [payload |-> fallbackTodo,
                                                    error |-> o.error])]]
              /\ justDone' = NoCall
              /\ UNCHANGED errorText
       ELSE IF c.resp.error # ""
       THEN \* throw error; catch: setErrorText(error.message)
            /\ errorText' = Kept(c.resp.error, errorText)
            /\ calls' = RemoveAt(calls, i)
            /\ justDone' = Finished([c EXCEPT !.shown = c.resp.error], "error")
            /\ UNCHANGED <<store, nextId, feed>>
       ELSE IF ShouldNotify(c.resp.data)
       THEN \E res \in NotifyResults :
              /\ calls' = [calls EXCEPT ![i] = Dispatched(c, c.resp.data, res)]
              /\ justDone' = NoCall
              /\ UNCHANGED <<store, nextId, feed, errorText>>
       ELSE \* nothing to dispatch
            /\ calls' = RemoveAt(calls, i)
            /\ justDone' = Finished(c, "ok")
            /\ UNCHANGED <<store, nextId, feed, errorText>>
    /\ UNCHANGED <<feedVars, sideVars, todos, loading, fetch, sub, nOps>>
    /\ FilterEffect

\* the insert without the assignment has answered
addTodo_AfterFallback ==
  \E i \in 1..Len(calls) :
    LET c == calls[i] IN
    /\ c.op = "addTodo" /\ c.pc = "fallback"
    /\ IF c.resp.error # ""
       THEN /\ errorText' = Kept(c.resp.error, errorText)
            /\ calls' = RemoveAt(calls, i)
            /\ justDone' = Finished([c EXCEPT !.shown = c.resp.error], "error")
       ELSE IF ShouldNotify(c.resp.data)
       THEN \E res \in NotifyResults :
              /\ errorText' = Kept(FkWarning, errorText)
              /\ calls' = [calls EXCEPT ![i] =
                   Dispatched([c EXCEPT !.shown = FkWarning], c.resp.data, res)]
              /\ justDone' = NoCall
       ELSE /\ errorText' = Kept(FkWarning, errorText)
            /\ calls' = RemoveAt(calls, i)
            /\ justDone' = Finished([c EXCEPT !.shown = FkWarning], "ok")
    /\ UNCHANGED <<feedVars, sideVars, store, nextId, todos, loading, fetch, sub, feed, nOps>>
    /\ FilterEffect

\* createTaskAssignmentNotification has returned to addTodo
addTodo_AfterNotify ==
  \E i \in 1..Len(calls) :
    LET c == calls[i] IN
    /\ c.op = "addTodo" /\ c.pc = "notify"
    /\ calls' = RemoveAt(calls, i)
    /\ justDone' = Finished(AfterDispatch(c), "ok")
    /\ UNCHANGED <<feedVars, sideVars, store, nextId, todos, loading, errorText, fetch, sub, feed,
                   nOps>>
    /\ FilterEffect

(***************************************************************************)
(* deleteTodo                                                              *)
(***************************************************************************)
\* a deleteTodo that removes the task from the collection before the store
\* has answered
deleteTodo_Call_Optimistic ==
  /\ CanCall
  /\ ~loading
  /\ nOps' = nOps + 1
  /\ \E k \in 1..Len(todos) :
       \E o \in DeleteOutcomes(todos[k].id) :
         /\ store' = o.store
         /\ feed' = feed \o o.events
         /\ calls' = Append(calls,
              [NewCall("deleteTodo", todos[k], <<>>, Null, NoDate)
                 EXCEPT !.resp = [error |-> o.error, data |-> NullRow]])
         /\ todos' = SelectSeq(todos, LAMBDA x : x.id # todos[k].id)
  /\ justDone' = NoCall
  /\ UNCHANGED <<feedVars, sideVars, nextId, loading, errorText, fetch, sub>>
  /\ FilterEffect

deleteTodo_Call ==
  /\ CanCall
  /\ ~loading
  /\ nOps' = nOps + 1
  /\ \E k \in 1..Len(todos) :
       \E o \in DeleteOutcomes(todos[k].id) :
         /\ store' = o.store
         /\ feed' = feed \o o.events
         /\ calls' = Append(calls,
              [NewCall("deleteTodo", todos[k], <<>>, Null, NoDate)
                 EXCEPT !.resp = [error |-> o.error, data |-> NullRow]])
  /\ justDone' = NoCall
  /\ UNCHANGED <<feedVars, sideVars, nextId, todos, loading, errorText, fetch, sub>>
  /\ FilterEffect

deleteTodo_Return ==
  \E i \in 1..Len(calls) :
    LET c == calls[i] IN
    /\ c.op = "deleteTodo" /\ c.pc = "sent"
    /\ IF c.resp.error # ""
       THEN /\ justDone' = Finished([c EXCEPT !.logged = @ + 1], "error")
            /\ UNCHANGED todos
       ELSE /\ todos' = Kept(SelectSeq(c.snap, LAMBDA x : x.id # c.todo.id), todos)
            /\ justDone' = Finished(c, "ok")
    /\ calls' = RemoveAt(calls, i)
    /\ UNCHANGED <<feedVars, sideVars, store, nextId, loading, errorText, fetch, sub, feed,
                   nOps>>
    /\ FilterEffect

(***************************************************************************)
(* updateTodoAssignment                                                    *)
(***************************************************************************)
\* setTodos(todos.map(t => t.id === todo.id ? {...t, assigned_to} : t)) on the
\* array the call captured
WithAssignment(c) ==
  [k \in 1..Len(c.snap) |->
     IF c.snap[k].id = c.todo.id
     THEN [c.snap[k] EXCEPT !.assigned_to = c.argUser] ELSE c.snap[k]]

updateTodoAssignment_Call ==
  /\ CanCall
  /\ ~loading
  /\ nOps' = nOps + 1
  /\ \E k \in 1..Len(todos), a \in SelectorOptions \cup {Null} :
       /\ a # Displayed(todos[k].assigned_to)
       /\ \E o \in UpdateOutcomes(todos[k].id, "assigned_to", a, TRUE) :
            /\ store' = o.store
            /\ feed' = feed \o o.events
            /\ calls' = Append(calls,
                 [NewCall("updateTodoAssignment", todos[k], <<>>, a, NoDate)
                    EXCEPT !.resp = [error |-> o.error, data |-> o.data],
                           !.prev = o.prev])
  /\ justDone' = NoCall
  /\ UNCHANGED <<feedVars, sideVars, nextId, todos, loading, errorText, fetch, sub>>
  /\ FilterEffect

updateTodoAssignment_AfterUpdate ==
  \E i \in 1..Len(calls) :
    LET c == calls[i] IN
    /\ c.op = "updateTodoAssignment" /\ c.pc = "sent"
    /\ IF c.resp.error # "" /\ IsFkViolation(c.resp.error)
       THEN /\ errorText' = Kept(FkWarning, errorText)
            /\ calls' = RemoveAt(calls, i)
            /\ justDone' = Finished([c EXCEPT !.shown = FkWarning], "error")
            /\ UNCHANGED todos
       ELSE IF c.resp.error # ""
       THEN /\ errorText' = Kept(c.resp.error, errorText)
            /\ calls' = RemoveAt(calls, i)
            /\ justDone' = Finished([c EXCEPT !.shown = c.resp.error,
                                              !.logged = @ + 1], "error")
            /\ UNCHANGED todos
       ELSE IF ShouldNotify(c.resp.data)
       THEN \E res \in NotifyResults :
              /\ calls' = [calls EXCEPT ![i] = Dispatched(c, c.resp.data, res)]
              /\ justDone' = NoCall
              /\ UNCHANGED <<todos, errorText>>
       ELSE /\ todos' = Kept(WithAssignment(c), todos)
            /\ calls' = RemoveAt(calls, i)
            /\ justDone' = Finished(c, "ok")
            /\ UNCHANGED errorText
    /\ UNCHANGED <<feedVars, sideVars, store, nextId, loading, fetch, sub, feed, nOps>>
    /\ FilterEffect

updateTodoAssignment_AfterNotify ==
  \E i \in 1..Len(calls) :
    LET c == calls[i] IN
    /\ c.op = "updateTodoAssignment" /\ c.pc = "notify"
    /\ todos' = Kept(WithAssignment(c), todos)
    /\ calls' = RemoveAt(calls, i)
    /\ justDone' = Finished(AfterDispatch(c), "ok")
    /\ UNCHANGED <<feedVars, sideVars, store, nextId, loading, errorText, fetch, sub, feed,
                   nOps>>
    /\ FilterEffect

(***************************************************************************)
(* updateTodoDueDate                                                       *)
(***************************************************************************)
WithDueDate(c) ==
  [k \in 1..Len(c.snap) |->
     IF c.snap[k].id = c.todo.id
     THEN [c.snap[k] EXCEPT !.due_date = c.argDate] ELSE c.snap[k]]

updateTodoDueDate_Call ==
  /\ CanCall
  /\ ~loading
  /\ nOps' = nOps + 1
  /\ \E k \in 1..Len(todos), d \in DueDates :
       \E o \in UpdateOutcomes(todos[k].id, "due_date", d, FALSE) :
         /\ store' = o.store
         /\ feed' = feed \o o.events
         /\ calls' = Append(calls,
              [NewCall("updateTodoDueDate", todos[k], <<>>, Null, d)
                 EXCEPT !.resp = [error |-> o.error, data |-> NullRow],
                        !.prev = o.prev])
  /\ justDone' = NoCall
  /\ UNCHANGED <<feedVars, sideVars, nextId, todos, loading, errorText, fetch, sub>>
  /\ FilterEffect

updateTodoDueDate_Return ==
  \E i \in 1..Len(calls) :
    LET c == calls[i] IN
    /\ c.op = "updateTodoDueDate" /\ c.pc = "sent"
    /\ IF c.resp.error # ""
       THEN /\ justDone' = Finished([c EXCEPT !.logged = @ + 1], "error")
            /\ UNCHANGED todos
       ELSE /\ todos' = Kept(WithDueDate(c), todos)
            /\ justDone' = Finished(c, "ok")
    /\ calls' = RemoveAt(calls, i)
    /\ UNCHANGED <<feedVars, sideVars, store, nextId, loading, errorText, fetch, sub, feed,
                   nOps>>
    /\ FilterEffect

Next ==
  \/ fetchTodos_Exec
  \/ fetchTodos_Return
  \/ Subscribe
  \/ DeliverEvent
  \/ Remote_addTodo
  \/ Remote_update
  \/ Remote_delete
  \/ setNewTaskText
  \/ addTodo_Call
  \/ addTodo_AfterInsert
  \/ addTodo_AfterFallback
  \/ addTodo_AfterNotify
  \/ deleteTodo_Call
  \/ deleteTodo_Return
  \/ updateTodoAssignment_Call
  \/ updateTodoAssignment_AfterUpdate
  \/ updateTodoAssignment_AfterNotify
  \/ updateTodoDueDate_Call
  \/ updateTodoDueDate_Return

Spec == Init /\ [][Next]_vars

(***************************************************************************)
(* The notifications table and the Notification component of the signed-in *)
(* user.  Rows addressed to Me are inserted by the dispatcher running for   *)
(* another user; row level security shows Me no other rows.                *)
(***************************************************************************)
NotificationLimit == 20

NotificationRow(i, read) ==
  [id |-> i, user_id |-> Me, is_read |-> read, created_at |-> i]

RECURSIVE NewestFirst(_)
NewestFirst(S) ==
  IF S = {} THEN <<>>
  ELSE LET m == CHOOSE r \in S : \A q \in S : q.created_at <= r.created_at
       IN <<m>> \o NewestFirst(S \ {m})

Limit(s, n) == SubSeq(s, 1, IF Len(s) < n THEN Len(s) ELSE n)

\* select('*').eq('user_id', userId).order('created_at', desc).limit(20)
SelectNotifications ==
  Limit(NewestFirst({r \in notes : r.user_id = Me}), NotificationLimit)

\* data.filter(n => !n.is_read).length
UnreadIn(s) == Cardinality({k \in 1..Len(s) : ~s[k].is_read})

\* the store answers the select of fetchNotifications
fetchNotifications_Exec ==
  /\ nfetch.pc = "pending"
  /\ \E ok \in BOOLEAN :
       nfetch' = [pc |-> "responded", ok |-> ok,
                  data |-> IF ok THEN SelectNotifications ELSE <<>>]
  /\ markDone' = NoCall
  /\ UNCHANGED <<taskVars, sideVars, filteredTodos, isCompleted, notes, nextNoteId, notifications, unreadCount,
                 showNotifications, nsub, nfeed, marks, nMarks>>

\* fetchNotifications resumes: a failed select is logged, otherwise
\* setNotifications(data) and setUnreadCount(number of unread in data)
fetchNotifications_Return ==
  /\ nfetch.pc = "responded"
  /\ notifications' = Kept(IF nfetch.ok THEN nfetch.data ELSE notifications,
                        notifications)
  /\ unreadCount' = Kept(IF nfetch.ok THEN UnreadIn(nfetch.data) ELSE unreadCount,
                      unreadCount)
  /\ nfetch' = [nfetch EXCEPT !.pc = "done", !.data = <<>>]
  /\ markDone' = NoCall
  /\ UNCHANGED <<taskVars, sideVars, filteredTodos, isCompleted, notes, nextNoteId, showNotifications, nsub, nfeed,
                 marks, nMarks>>

\* the 'public:notifications' channel is joined
SubscribeNotifications ==
  /\ nsub = "joining"
  /\ nsub' = "joined"
  /\ markDone' = NoCall
  /\ UNCHANGED <<taskVars, sideVars, filteredTodos, isCompleted, notes, nextNoteId, notifications, unreadCount,
                 showNotifications, nfetch, nfeed, marks, nMarks>>

\* createTaskAssignmentNotification of another user stores a notification
\* for Me; the store emits its INSERT event on a joined channel
NotificationInserted(max) ==
  /\ nextNoteId <= max
  /\ LET row == NotificationRow(nextNoteId, FALSE) IN
       /\ notes' = notes \cup {row}
       /\ nfeed' = IF nsub = "joined" THEN Append(nfeed, row) ELSE nfeed
  /\ nextNoteId' = nextNoteId + 1
  /\ markDone' = NoCall
  /\ UNCHANGED <<taskVars, sideVars, filteredTodos, isCompleted, notifications, unreadCount, showNotifications,
                 nfetch, nsub, marks, nMarks>>

\* the INSERT handler: setNotifications(prev => [newNotification, ...prev])
\* and setUnreadCount(prev => prev + 1)
DeliverNotification ==
  /\ nsub = "joined"
  /\ nfeed # <<>>
  /\ notifications' = <<Head(nfeed)>> \o notifications
  /\ unreadCount' = unreadCount + 1
  /\ nfeed' = Tail(nfeed)
  /\ markDone' = NoCall
  /\ UNCHANGED <<taskVars, sideVars, filteredTodos, isCompleted, notes, nextNoteId, showNotifications, nfetch, nsub,
                 marks, nMarks>>

\* the bell button: setShowNotifications(!showNotifications)
toggleNotifications ==
  /\ mounted
  /\ showNotifications' = ~showNotifications
  /\ markDone' = NoCall
  /\ UNCHANGED <<taskVars, sideVars, filteredTodos, isCompleted, notes, nextNoteId, notifications, unreadCount,
                 nfetch, nsub, nfeed, marks, nMarks>>

(***************************************************************************)
(* markAsRead and markAllAsRead.  Both are reachable only through buttons  *)
(* of the open panel, and both write the array captured at the call.       *)
(***************************************************************************)
\* from('notifications').update({is_read: true}) on the rows selected
MarkOutcomes(rows) ==
  {[error |-> OtherMessage, notes |-> notes],
   [error |-> "",
    notes |-> (notes \ rows) \cup {[r EXCEPT !.is_read = TRUE] : r \in rows}]}

NewMark(op, id, error) ==
  [op |-> op, id |-> id, snap |-> notifications, error |-> error]

\* a mark call as it is remembered once it has finished, with the view and
\* the counter it found when it resumed
FinishedMark(m) ==
  [op |-> m.op, id |-> m.id, snap |-> m.snap, error |-> m.error,
   before |-> notifications, countBefore |-> unreadCount]

CanMark == mounted /\ nMarks < MaxMarks /\ Len(marks) < MaxInFlightMarks

\* notifications.map(n => n.id === id ? {...n, is_read: true} : n)
MarkedRead(s, id) ==
  [k \in 1..Len(s) |->
     IF s[k].id = id THEN [s[k] EXCEPT !.is_read = TRUE] ELSE s[k]]

\* notifications.map that leaves the read flags as they are
AllRead_Unflagged(s) == s

\* notifications.map(n => ({...n, is_read: true}))
AllRead(s) == [k \in 1..Len(s) |-> [s[k] EXCEPT !.is_read = TRUE]]

\* Math.max(0, n)
Max0(n) == IF n < 0 THEN 0 ELSE n

markAsRead_Call ==
  /\ CanMark
  /\ showNotifications
  /\ \E k \in 1..Len(notifications) :
       /\ ~notifications[k].is_read
       /\ \E o \in MarkOutcomes({r \in notes : r.id = notifications[k].id}) :
            /\ notes' = o.notes
            /\ marks' = Append(marks,
                 NewMark("markAsRead", notifications[k].id, o.error))
  /\ nMarks' = nMarks + 1
  /\ markDone' = NoCall
  /\ UNCHANGED <<taskVars, sideVars, filteredTodos, isCompleted, nextNoteId, notifications, unreadCount,
                 showNotifications, nfetch, nsub, nfeed>>

markAsRead_Return ==
  \E i \in 1..Len(marks) :
    LET m == marks[i] IN
    /\ m.op = "markAsRead"
    /\ IF m.error # ""
       THEN UNCHANGED <<notifications, unreadCount>>
       ELSE /\ notifications' = Kept(MarkedRead(m.snap, m.id), notifications)
            /\ unreadCount' = Kept(Max0(unreadCount - 1), unreadCount)
    /\ marks' = RemoveAt(marks, i)
    /\ markDone' = FinishedMark(m)
    /\ UNCHANGED <<taskVars, sideVars, filteredTodos, isCompleted, notes, nextNoteId, showNotifications, nfetch,
                   nsub, nfeed, nMarks>>

markAllAsRead_Call ==
  /\ CanMark
  /\ showNotifications
  /\ unreadCount > 0
  /\ \E o \in MarkOutcomes({r \in notes : r.user_id = Me /\ ~r.is_read}) :
       /\ notes' = o.notes
       /\ marks' = Append(marks, NewMark("markAllAsRead", 0, o.error))
  /\ nMarks' = nMarks + 1
  /\ markDone' = NoCall
  /\ UNCHANGED <<taskVars, sideVars, filteredTodos, isCompleted, nextNoteId, notifications, unreadCount,
                 showNotifications, nfetch, nsub, nfeed>>

markAllAsRead_Return ==
  \E i \in 1..Len(marks) :
    LET m == marks[i] IN
    /\ m.op = "markAllAsRead"
    /\ IF m.error # ""
       THEN UNCHANGED <<notifications, unreadCount>>
       ELSE /\ notifications' = Kept(AllRead(m.snap), notifications)
            /\ unreadCount' = Kept(0, unreadCount)
    /\ marks' = RemoveAt(marks, i)
    /\ markDone' = FinishedMark(m)
    /\ UNCHANGED <<taskVars, sideVars, filteredTodos, isCompleted, notes, nextNoteId, showNotifications, nfetch,
                   nsub, nfeed, nMarks>>

FeedNext ==
  \/ fetchNotifications_Exec
  \/ fetchNotifications_Return
  \/ SubscribeNotifications
  \/ NotificationInserted(MaxNotes)
  \/ DeliverNotification
  \/ toggleNotifications
  \/ markAsRead_Call
  \/ markAsRead_Return
  \/ markAllAsRead_Call
  \/ markAllAsRead_Return

FeedSpec == Init /\ [][FeedNext]_vars

\* the initial load and INSERT feed events alone, with enough notifications
\* to pass the limit of the initial load
CapNext ==
  \/ fetchNotifications_Exec
  \/ fetchNotifications_Return
  \/ SubscribeNotifications
  \/ NotificationInserted(MaxCapNotes)
  \/ DeliverNotification

CapSpec == Init /\ [][CapNext]_vars

(***************************************************************************)
(* Teardown.  TodoList renders the Notification component, so unmounting   *)
(* it runs the cleanup of both mount effects.  Handler calls that await    *)
(* the store go on; what they pass to a state setter is dropped (Kept).    *)
(***************************************************************************)
\* a teardown whose cleanup leaves the notification channel subscribed
Unmount_TodosOnly ==
  /\ mounted
  /\ mounted' = FALSE
  /\ sub' = "closed"
  /\ feed' = <<>>
  /\ justDone' = NoCall
  /\ markDone' = NoCall
  /\ UNCHANGED <<store, nextId, todos, loading, errorText, fetch, calls, nOps,
                 notes, nextNoteId, notifications, unreadCount,
                 showNotifications, nfetch, nsub, nfeed, marks, nMarks,
                 filterVars, replayVars, toggles, nToggles>>
  /\ isCompleted' = NoRows

\* subscription.unsubscribe() of both effects: events of a channel that is
\* no longer subscribed reach no handler
Unmount ==
  /\ mounted
  /\ mounted' = FALSE
  /\ sub' = "closed"
  /\ nsub' = "closed"
  /\ feed' = <<>>
  /\ nfeed' = <<>>
  /\ justDone' = NoCall
  /\ markDone' = NoCall
  /\ UNCHANGED <<store, nextId, todos, loading, errorText, fetch, calls, nOps,
                 notes, nextNoteId, notifications, unreadCount,
                 showNotifications, nfetch, marks, nMarks,
                 filterVars, replayVars, toggles, nToggles>>
  /\ isCompleted' = NoRows

\* both components from mount to teardown, with the writes that can be in
\* flight when the view goes away
TeardownNext ==
  \/ fetchTodos_Exec
  \/ fetchTodos_Return
  \/ Subscribe
  \/ DeliverEvent
  \/ Remote_addTodo
  \/ deleteTodo_Call
  \/ deleteTodo_Return
  \/ updateTodoDueDate_Call
  \/ updateTodoDueDate_Return
  \/ fetchNotifications_Exec
  \/ fetchNotifications_Return
  \/ SubscribeNotifications
  \/ NotificationInserted(MaxNotes)
  \/ DeliverNotification
  \/ Unmount

TeardownSpec == Init /\ [][TeardownNext]_vars

(***************************************************************************)
(* The filter on its own: any loaded collection, any instant, any zone.    *)
(***************************************************************************)
FilterRows(i) ==
  {TodoRow(i, w[1], w[2], d, c, <<"a">>) :
     w \in {<<Me, Null>>, <<Other, Me>>},
     d \in {NoDate} \cup {PickDate(x) : x \in Days},
     c \in BOOLEAN}

FilterCollections ==
  {<<>>} \cup {<<r>> : r \in FilterRows(1)} \cup
  {<<q, r>> : q \in FilterRows(2), r \in FilterRows(1)}

\* TodoList after fetchTodos has loaded collection ts
FilterInit ==
  /\ FeedInit
  /\ \E ts \in FilterCollections :
       /\ todos = ts
       /\ filteredTodos = ts
       /\ isCompleted = Rows(ts, NoRows)
       /\ store = {ts[k] : k \in 1..Len(ts)}
       /\ nextId = Len(ts) + 1
  /\ loading = FALSE
  /\ errorText = ""
  /\ fetch = [pc |-> "done", ok |-> TRUE, data |-> <<>>]
  /\ sub = "joined"
  /\ feed = <<>>
  /\ calls = <<>>
  /\ justDone = NoCall
  /\ nOps = 0
  /\ currentFilter = "all"
  /\ now \in Times
  /\ zone \in Zones
  /\ mounted = TRUE
  /\ replayA = <<>>
  /\ replayB = <<>>
  /\ nReplay = 0
  /\ replayLog = <<>>
  /\ toggles = <<>>
  /\ nToggles = 0

\* TaskFilter button: setCurrentFilter(f), after which the effect runs
setCurrentFilter ==
  /\ mounted
  /\ \E f \in FilterTypes :
       /\ currentFilter' = f
       /\ filteredTodos' = Filter(todos, f, now, zone)
  /\ isCompleted' = Rendered(loading, filteredTodos', isCompleted)
  /\ UNCHANGED <<taskVars, feedVars, now, zone, mounted, replayVars, toggles,
                 nToggles>>

FilterNext == setCurrentFilter

FilterSpec == FilterInit /\ [][FilterNext]_vars

(***************************************************************************)
(* Replay: the same change-feed events applied to two copies of one        *)
(* collection, each copy reached through either binding.                   *)
(***************************************************************************)
ReplayRows ==
  {TodoRow(i, w[1], w[2], NoDate, c, <<"a">>) :
     i \in 1..MaxTasks, w \in {<<Me, Null>>, <<Other, Me>>}, c \in {FALSE}}

ReplayCollections ==
  {<<>>} \cup {<<r>> : r \in ReplayRows} \cup
  {<<q, r>> : q \in {x \in ReplayRows : x.id = 2},
              r \in {x \in ReplayRows : x.id = 1}}

ReplayInit ==
  /\ TaskInit
  /\ FeedInit
  /\ currentFilter = "all"
  /\ filteredTodos = <<>>
  /\ isCompleted = NoRows
  /\ toggles = <<>>
  /\ nToggles = 0
  /\ now = HoursPerDay
  /\ zone = 0
  /\ mounted = TRUE
  /\ \E ts \in ReplayCollections : replayA = ts /\ replayB = ts
  /\ nReplay = 0
  /\ replayLog = <<>>

\* one event of the feed reaches both copies
ReplayEvent ==
  /\ nReplay < MaxReplay
  /\ \E type \in {"INSERT", "UPDATE", "DELETE"}, row \in ReplayRows,
        bA \in {1, 2}, bB \in {1, 2} :
       LET ev(b) == [eventType |-> type,
                     new |-> IF type = "DELETE" THEN NullRow
                             ELSE [row EXCEPT !.is_complete = TRUE],
                     old |-> IF type = "INSERT" THEN NullRow ELSE KeyOnly(row),
                     binding |-> b]
       IN /\ replayA' = ApplyEvent(replayA, ev(bA))
          /\ replayB' = ApplyEvent(replayB, ev(bB))
          /\ replayLog' = Append(replayLog, [event |-> ev(bA), before |-> replayA])
  /\ nReplay' = nReplay + 1
  /\ UNCHANGED <<taskVars, feedVars, filterVars, mounted, rowVars>>

\* the local change of a deleteTodo the store has acknowledged, no event
\* having come in between: setTodos(todos.filter((x) => x.id != id))
ReplayLocalDelete ==
  /\ nReplay < MaxReplay
  /\ \E k \in 1..Len(replayA) :
       LET id == replayA[k].id IN
       /\ replayA' = SelectSeq(replayA, LAMBDA x : x.id # id)
       /\ replayB' = SelectSeq(replayB, LAMBDA x : x.id # id)
       /\ replayLog' = Append(replayLog,
            [event |-> [eventType |-> "LOCAL_DELETE", new |-> NullRow,
                        old |-> KeyOnly(replayA[k]), binding |-> 0],
             before |-> replayA])
  /\ nReplay' = nReplay + 1
  /\ UNCHANGED <<taskVars, feedVars, filterVars, mounted, rowVars>>

ReplayNext ==
  \/ ReplayEvent
  \/ ReplayLocalDelete

ReplaySpec == ReplayInit /\ [][ReplayNext]_vars

(***************************************************************************)
(* The Todo rows and their completion checkbox.  Each row keeps its own     *)
(* isCompleted state; toggle writes the store and sets that state from the *)
(* row the store returns, and the change reaches the task collection       *)
(* through the change feed.  The other user toggles tasks the same way.    *)
(***************************************************************************)
ToggleRows(i) ==
  {TodoRow(i, w[1], w[2], NoDate, c, <<"a">>) :
     w \in {<<Me, Null>>, <<Other, Me>>}, c \in BOOLEAN}

ToggleCollections ==
  {<<>>} \cup {<<r>> : r \in ToggleRows(1)} \cup
  {<<q, r>> : q \in ToggleRows(2), r \in ToggleRows(1)}

\* TodoList after fetchTodos has loaded collection ts, the channel joined and
\* the rows rendered
ToggleInit ==
  /\ FeedInit
  /\ \E ts \in ToggleCollections :
       /\ todos = ts
       /\ filteredTodos = ts
       /\ isCompleted = Rows(ts, NoRows)
       /\ store = {ts[k] : k \in 1..Len(ts)}
       /\ nextId = Len(ts) + 1
  /\ loading = FALSE
  /\ errorText = ""
  /\ fetch = [pc |-> "done", ok |-> TRUE, data |-> <<>>]
  /\ sub = "joined"
  /\ feed = <<>>
  /\ calls = <<>>
  /\ justDone = NoCall
  /\ nOps = 0
  /\ currentFilter = "all"
  /\ now = HoursPerDay
  /\ zone = 0
  /\ mounted = TRUE
  /\ replayA = <<>>
  /\ replayB = <<>>
  /\ nReplay = 0
  /\ replayLog = <<>>
  /\ toggles = <<>>
  /\ nToggles = 0

\* the checkbox of a row: update({is_complete: !isCompleted}).eq('id', todo.id)
\* .throwOnError().select().single()
toggle_Call ==
  /\ mounted
  /\ ~loading
  /\ nToggles < MaxToggles
  /\ Len(toggles) < MaxInFlightToggles
  /\ \E k \in 1..Len(filteredTodos) :
       LET id == filteredTodos[k].id IN
       /\ id \in DOMAIN isCompleted
       /\ \E o \in UpdateOutcomes(id, "is_complete", ~isCompleted[id], TRUE) :
            /\ store' = o.store
            /\ feed' = feed \o o.events
            /\ toggles' = Append(toggles,
                 [id |-> id, error |-> o.error, data |-> o.data])
  /\ nToggles' = nToggles + 1
  /\ justDone' = NoCall
  /\ UNCHANGED <<feedVars, filterVars, mounted, replayVars, isCompleted,
                 nextId, todos, loading, errorText, fetch, sub, calls, nOps>>

\* toggle resumes: if (data) setIsCompleted(data.is_complete); an error is
\* logged.  The state of a row that is no longer rendered is dropped.
toggle_Return ==
  /\ \E i \in 1..Len(toggles) :
       LET c == toggles[i] IN
       /\ isCompleted' =
            IF c.error = "" /\ c.data # NullRow /\ c.id \in DOMAIN isCompleted
            THEN [isCompleted EXCEPT ![c.id] = c.data.is_complete]
            ELSE isCompleted
       /\ toggles' = RemoveAt(toggles, i)
  /\ justDone' = NoCall
  /\ UNCHANGED <<feedVars, filterVars, mounted, replayVars, nToggles,
                 store, nextId, todos, loading, errorText, fetch, sub, feed,
                 calls, nOps>>

\* Other ticks or unticks a task they created or are assigned to
Remote_toggle ==
  /\ nOps < MaxOps
  /\ \E r \in store :
       /\ CanUpdate(Other, r)
       /\ LET new == [r EXCEPT !.is_complete = ~r.is_complete] IN
            /\ store' = (store \ {r}) \cup {new}
            /\ feed' = feed \o Emit("UPDATE", new, r)
  /\ nOps' = nOps + 1
  /\ justDone' = NoCall
  /\ UNCHANGED <<feedVars, sideVars, nextId, todos, loading, errorText, fetch, sub, calls>>
  /\ FilterEffect

ToggleNext ==
  \/ toggle_Call
  \/ toggle_Return
  \/ Remote_toggle
  \/ DeliverEvent

ToggleSpec == ToggleInit /\ [][ToggleNext]_vars

(***************************************************************************)
(* Properties.                                                             *)
(***************************************************************************)

\* C1: the local task collection never holds two entries with the same task
\* id, whatever snapshot loads, change-feed events and local writes happened.
C1_NoDuplicateIds ==
  \A i, j \in 1..Len(todos) : i # j => todos[i].id # todos[j].id

\* the calls whose record can be inspected in a state: those awaiting the
\* store and the one that finished in the last step
CallsInView ==
  {calls[i] : i \in 1..Len(calls)} \cup
  (IF justDone = NoCall THEN {} ELSE {justDone})

\* C2: updateTodoAssignment never dispatches a notification when the
\* requested assignee is absent (null) or equals the assignee the task has in
\* the store when the update is applied.
C2_NoNotificationForSameOrAbsent ==
  \A c \in CallsInView :
    (/\ c.op = "updateTodoAssignment"
     /\ \/ c.argUser = Null
        \/ (c.prev # NullRow /\ c.argUser = c.prev.assigned_to))
    => c.notifs = <<>>

\* C3: an updateTodoAssignment that the store applied, with a new assignee
\* that is a valid user other than the previous assignee and the signed-in
\* user, has issued exactly one notification insert when it completes; the
\* insert is addressed to the new assignee and carries the id of the
\* reassigned task.  No call issues more than one.
C3_ExactlyOneNotification ==
  /\ \A c \in CallsInView :
       c.op = "updateTodoAssignment" => Len(c.notifs) <= 1
  /\ (/\ justDone.op = "updateTodoAssignment"
      /\ justDone.error = ""
      /\ justDone.argUser \in ValidUsers \ {Me, justDone.prev.assigned_to})
     => /\ Len(justDone.notifs) = 1
        /\ justDone.notifs[1].payload.user_id = justDone.argUser
        /\ justDone.notifs[1].payload.task_id = justDone.todo.id

C3_Reassigned ==
  /\ justDone.op = "updateTodoAssignment"
  /\ justDone.error = ""
  /\ justDone.argUser = Other
  /\ justDone.prev.assigned_to = Null
  /\ Len(justDone.notifs) = 1

\* the first insert of addTodo was rejected as a foreign key violation
FkRejected(c) ==
  c.op = "addTodo" /\ c.inserts # <<>> /\ c.inserts[1].error = FkMessage

NoDanglingAssignee == \A r \in store : r.assigned_to \in ValidUsers \cup {Null}

\* C4: an addTodo whose assignee the store rejected as a foreign key
\* violation ends with a persisted task without assignee, the warning shown,
\* no notification dispatched and no error thrown past the handler; no row
\* with the rejected assignee is ever in the store.
C4_FkRejectedEndsPersisted ==
  /\ NoDanglingAssignee
  /\ FkRejected(justDone)
     => /\ justDone.outcome = "ok"
        /\ justDone.data # NullRow
        /\ justDone.data.assigned_to = Null
        /\ justDone.shown = FkWarning
        /\ errorText = FkWarning
        /\ justDone.notifs = <<>>

\* C4, amended: an addTodo whose assignee the store rejected as a foreign key
\* violation retries the insert once with the assignee cleared and dispatches
\* no notification.  When the retry is stored the call ends with a persisted
\* task without assignee and the warning shown; when the store rejects the
\* retry no task is persisted and that error is shown.  No row with the
\* rejected assignee is ever in the store.
C4_FkRejectedFallsBack ==
  /\ NoDanglingAssignee
  /\ FkRejected(justDone)
     => /\ Len(justDone.inserts) = 2
        /\ justDone.inserts[2].payload =
             [justDone.inserts[1].payload EXCEPT !.assigned_to = Null]
        /\ justDone.notifs = <<>>
        /\ IF justDone.inserts[2].error = ""
           THEN /\ justDone.outcome = "ok"
                /\ justDone.data # NullRow
                /\ justDone.data.assigned_to = Null
                /\ justDone.shown = FkWarning
                /\ errorText = FkWarning
           ELSE /\ justDone.outcome = "error"
                /\ justDone.data = NullRow
                /\ justDone.shown = justDone.inserts[2].error
                /\ errorText = justDone.inserts[2].error

C4_FallbackStored ==
  /\ FkRejected(justDone)
  /\ justDone.argUser = Ghost
  /\ Len(justDone.inserts) = 2
  /\ justDone.inserts[2].error = ""
  /\ justDone.data \in store
  /\ justDone.data.assigned_to = Null

\* a step of addTodo
addTodo_Step ==
  \/ addTodo_Call
  \/ addTodo_AfterInsert
  \/ addTodo_AfterFallback
  \/ addTodo_AfterNotify

\* the insert of addTodo, or its retry, was rejected for good
Aborted(c) ==
  /\ c.op = "addTodo"
  /\ c.inserts # <<>>
  /\ \/ c.inserts[1].error \notin {"", FkMessage}
     \/ (Len(c.inserts) >= 2 /\ c.inserts[2].error # "")

\* C5: when the store rejects the insert of addTodo for another reason than
\* a foreign key violation, or rejects the retry, the call ends with no task
\* persisted, no further insert, no notification dispatched and the error
\* shown; and no step of addTodo changes the local task collection.
C5_OtherFailureAborts ==
  /\ [](Aborted(justDone)
        => LET n == Len(justDone.inserts) IN
           /\ n = (IF justDone.inserts[1].error = FkMessage THEN 2 ELSE 1)
           /\ \A k \in 1..n : justDone.inserts[k].error # ""
           /\ justDone.data = NullRow
           /\ justDone.notifs = <<>>
           /\ justDone.outcome = "error"
           /\ justDone.shown = justDone.inserts[n].error
           /\ errorText = justDone.inserts[n].error)
  /\ [][addTodo_Step => todos' = todos]_vars

C5_InsertRejected ==
  /\ Aborted(justDone)
  /\ justDone.inserts[1].error = OtherMessage
  /\ justDone.argUser = Other
  /\ todos # <<>>

\* the last notification insert of the call failed
NotificationFailed(c) ==
  /\ c.op \in {"addTodo", "updateTodoAssignment"}
  /\ c.notifs # <<>>
  /\ c.notifs[Len(c.notifs)].result # "ok"

\* C6: a notification insert that fails (error answer or exception) is
\* logged once and not repeated; the addTodo or updateTodoAssignment that
\* dispatched it completes as a success with its stored row and shows no
\* error, and the step that resumes after the dispatch leaves the store and
\* errorText as they are.
C6_FailedNotificationOnlyLogged ==
  /\ [](NotificationFailed(justDone)
        => /\ Len(justDone.notifs) = 1
           /\ justDone.logged = 1
           /\ justDone.outcome = "ok"
           /\ justDone.error = ""
           /\ justDone.shown = ""
           /\ justDone.data # NullRow)
  /\ [][(addTodo_AfterNotify \/ updateTodoAssignment_AfterNotify)
        => (store' = store /\ errorText' = errorText)]_vars

C6_FailureLogged ==
  /\ NotificationFailed(justDone)
  /\ justDone.op = "addTodo"
  /\ justDone.notifs[1].result = "thrown"
  /\ justDone.data \in store

\* C7: in every state of the notification feed the unread counter equals the
\* number of entries of the local view that are not flagged read.
C7_CounterMatchesView == unreadCount = UnreadIn(notifications)

\* C8: a markAllAsRead that the store applied leaves the unread counter at 0
\* and every entry of the local view flagged read; one that the store
\* rejected leaves the view and the counter as it found them; and sending
\* the request changes neither.
C8_MarkAllAtomic ==
  /\ [](markDone.op = "markAllAsRead"
        => IF markDone.error = ""
           THEN /\ unreadCount = 0
                /\ \A k \in 1..Len(notifications) : notifications[k].is_read
           ELSE /\ notifications = markDone.before
                /\ unreadCount = markDone.countBefore)
  /\ [][markAllAsRead_Call => UNCHANGED <<notifications, unreadCount>>]_vars

C8_MarkedAll ==
  /\ markDone.op = "markAllAsRead"
  /\ markDone.error = ""
  /\ UnreadIn(markDone.before) >= 2
  /\ markDone.countBefore >= 2
  /\ notifications # <<>>

\* C9: after the initial load and any INSERT feed events the local view
\* holds at most 20 entries, ordered by descending creation time.
C9_AtMostLimitNewestFirst ==
  /\ Len(notifications) <= NotificationLimit
  /\ \A k \in 1..(Len(notifications) - 1) :
       notifications[k].created_at >= notifications[k + 1].created_at

\* no local write awaits the store, every emitted event has been delivered,
\* the snapshot has been loaded and the channel is joined
Quiescent ==
  /\ calls = <<>>
  /\ feed = <<>>
  /\ fetch.pc = "done"
  /\ fetch.ok
  /\ sub = "joined"

\* C10: whenever no local write is in flight and every emitted change-feed
\* event has been delivered, the local task collection holds exactly the
\* rows of the store that Me created or is assigned to, once each and with
\* the store's field values.
C10_ConvergedWhenQuiescent ==
  Quiescent
  => /\ {todos[k] : k \in 1..Len(todos)} = {r \in store : CanSee(Me, r)}
     /\ Len(todos) = Cardinality({r \in store : CanSee(Me, r)})


\* C11: deleteTodo, updateTodoAssignment and updateTodoDueDate leave the local
\* collection alone when they are issued, and a call the store answered with
\* an error ends with the collection exactly as it was.
C11_NoOptimisticChange ==
  /\ [][(deleteTodo_Call \/ updateTodoAssignment_Call \/ updateTodoDueDate_Call)
          => todos' = todos]_vars
  /\ [][(/\ justDone'.op \in {"deleteTodo", "updateTodoAssignment",
                               "updateTodoDueDate"}
         /\ justDone'.error # "")
          => todos' = todos]_vars

\* a due-date change the store refused, the task still as it was
C11_FailedWriteLeftAlone ==
  /\ justDone.op = "updateTodoDueDate"
  /\ justDone.error # ""
  /\ \E k \in 1..Len(todos) : todos[k] = justDone.todo

\* C12: an updateTodoAssignment the store rejects for the foreign key leaves
\* the local assignee as it was, shows the assignment warning and dispatches
\* no notification.
C12_FkRejectedAssignment ==
  /\ [](justDone.op = "updateTodoAssignment" /\ justDone.error = FkMessage
          => /\ justDone.outcome = "error"
             /\ justDone.shown = FkWarning
             /\ errorText = FkWarning
             /\ justDone.notifs = <<>>)
  /\ [][(justDone'.op = "updateTodoAssignment" /\ justDone'.error = FkMessage)
          => todos' = todos]_vars

\* an assignment to a user without a profile, refused, the assignee kept
C12_GhostAssignmentRefused ==
  /\ justDone.op = "updateTodoAssignment"
  /\ justDone.argUser = Ghost
  /\ justDone.error = FkMessage
  /\ \E k \in 1..Len(todos) :
       todos[k].id = justDone.todo.id /\ todos[k].assigned_to # Ghost

\* C13: a deleteTodo issued by a user who did not create the task removes it
\* neither from the store nor from the local collection.
C13_OnlyCreatorRemoves ==
  /\ [][\A r \in store :
          (\A q \in store' : q.id # r.id)
            => \/ deleteTodo_Call /\ r.user_id = Me
               \/ Remote_delete /\ r.user_id = Other]_vars
  /\ [][(justDone'.op = "deleteTodo" /\ justDone'.todo.user_id # Me)
          => \A k \in 1..Len(todos) :
               todos[k].id = justDone'.todo.id
                 => \E j \in 1..Len(todos') : todos'[j].id = todos[k].id]_vars

C15_OverdueHasDateAndIsOpen ==
  currentFilter = "overdue"
    => \A k \in 1..Len(filteredTodos) :
         /\ filteredTodos[k].due_date # NoDate
         /\ ~filteredTodos[k].is_complete

\* the overdue filter shows a task while a completed task due earlier than
\* today and a task without date are kept out
C15_OverdueFiltered ==
  /\ currentFilter = "overdue"
  /\ filteredTodos # <<>>
  /\ \E k \in 1..Len(todos) :
       /\ todos[k].is_complete \/ todos[k].due_date = NoDate
       /\ \A j \in 1..Len(filteredTodos) : filteredTodos[j].id # todos[k].id

\* C16: no task is at once overdue and due today, and an open task whose due
\* date was picked as the user's current day is due today and not overdue.
C16_DueTodayNotOverdue ==
  LET over  == Filter(todos, "overdue", now, zone)
      today == Filter(todos, "dueToday", now, zone)
  IN /\ \A i \in 1..Len(over), j \in 1..Len(today) : over[i].id # today[j].id
     /\ \A k \in 1..Len(todos) :
          (/\ ~todos[k].is_complete
           /\ todos[k].due_date = PickDate(LocalDay(now, zone)))
            => /\ \E j \in 1..Len(today) : today[j].id = todos[k].id
               /\ \A i \in 1..Len(over) : over[i].id # todos[k].id

IsBlank(s) == \A k \in 1..Len(s) : s[k] = " "

\* C18: an addTodo whose text is empty once trimmed issues no store call and
\* leaves the local collection as it was.
C18_BlankTextIgnored ==
  /\ [](\A c \in CallsInView :
          (c.op = "addTodo" /\ IsBlank(c.text))
            => /\ c.inserts = <<>>
               /\ c.notifs = <<>>
               /\ c.outcome \in {"rejected", "pending"})
  /\ [][(justDone'.op = "addTodo" /\ IsBlank(justDone'.text))
          => /\ justDone'.outcome = "rejected"
             /\ UNCHANGED <<store, todos, feed, calls>>]_vars

\* the form submitted with a blank text while tasks are listed
C18_BlankSubmitted ==
  /\ justDone.op = "addTodo"
  /\ justDone.text = <<" ">>
  /\ justDone.outcome = "rejected"
  /\ todos # <<>>

\* C19: once the components are torn down both subscriptions are closed, no
\* feed event changes the task or notification collection any more, and the
\* answer to a write still in flight is dropped.
C19_NothingAfterTeardown ==
  /\ [](~mounted => sub = "closed" /\ nsub = "closed")
  /\ [][~mounted => UNCHANGED <<todos, filteredTodos, notifications,
                                unreadCount, errorText, loading>>]_vars

\* a delete acknowledged after teardown, its task still in the collection
C19_LateAnswerDropped ==
  /\ ~mounted
  /\ justDone.op = "deleteTodo"
  /\ justDone.error = ""
  /\ \E k \in 1..Len(todos) : todos[k].id = justDone.todo.id

\* C20: with the panel open and nothing in flight every notification shown is
\* read and the counter is 0, no mark-as-read action having been taken.
C20_ViewingMarksRead ==
  (/\ showNotifications
   /\ nfetch.pc = "done"
   /\ nfeed = <<>>
   /\ marks = <<>>)
    => /\ unreadCount = 0
       /\ \A k \in 1..Len(notifications) : notifications[k].is_read


\* C21: an addTodo that succeeds has issued exactly one notification insert,
\* for the stored task and to its assignee, when the stored row's assignee is
\* present and is not the signed-in user, and none otherwise.
C21_NotifiesFinalAssignee ==
  (justDone.op = "addTodo" /\ justDone.outcome = "ok")
    => IF justDone.data.assigned_to \notin {Null, Me}
       THEN /\ Len(justDone.notifs) = 1
            /\ justDone.notifs[1].payload.user_id = justDone.data.assigned_to
            /\ justDone.notifs[1].payload.task_id = justDone.data.id
       ELSE justDone.notifs = <<>>

\* a task added for the other user, one notification issued for it
C21_AddedForOther ==
  /\ justDone.op = "addTodo"
  /\ justDone.outcome = "ok"
  /\ justDone.data.assigned_to = Other
  /\ Len(justDone.notifs) = 1
  /\ justDone.data.user_id = Me

\* C22: addTodo issues at most two inserts; a second one only after the first
\* was rejected as a foreign key violation, with the assignee null and every
\* other field as in the first; a rejected second insert ends the call.
C22_AtMostOneRetry ==
  \A c \in CallsInView :
    c.op = "addTodo"
      => /\ Len(c.inserts) <= 2
         /\ Len(c.inserts) = 2
              => /\ c.inserts[1].error = FkMessage
                 /\ c.inserts[1].payload.assigned_to # Null
                 /\ c.inserts[2].payload.assigned_to = Null
                 /\ c.inserts[2].payload.task = c.inserts[1].payload.task
                 /\ c.inserts[2].payload.user_id = c.inserts[1].payload.user_id
                 /\ c.inserts[2].payload.due_date = c.inserts[1].payload.due_date
         /\ (c.inserts # <<>> /\ c.inserts[1].error = OtherMessage)
              => Len(c.inserts) = 1

\* the retry was rejected as well and the call has ended
C22_RetryRejected ==
  /\ justDone.op = "addTodo"
  /\ Len(justDone.inserts) = 2
  /\ justDone.inserts[2].error # ""
  /\ justDone.outcome = "error"

\* C27: a change-feed event applied while a deleteTodo, updateTodoAssignment
\* or updateTodoDueDate awaits the store is still reflected once the call
\* applies its local change.  The handlers add no task to the collection, so
\* a task it holds that the call's own array does not was put there by an
\* INSERT event: every task the collection holds just before the call applies
\* its change, other than the call's own task, is still in it afterwards.
C27_NoLostUpdate ==
  [][(/\ justDone'.op \in {"deleteTodo", "updateTodoAssignment",
                            "updateTodoDueDate"}
      /\ justDone'.error = "")
       => \A k \in 1..Len(todos) :
            todos[k].id # justDone'.todo.id
              => \E j \in 1..Len(todos') : todos'[j].id = todos[k].id]_vars

\* C29: a notification insert is issued only by a call whose task write the
\* store has acknowledged, with the id and the assignee of the row the store
\* returned; a call whose write failed issues none.
C29_NotificationAfterAcknowledgedWrite ==
  /\ \A i \in 1..Len(calls) :
       LET c == calls[i] IN
       /\ c.pc \in {"sent", "fallback"} => c.notifs = <<>>
       /\ c.notifs # <<>>
            => /\ c.op \in {"addTodo", "updateTodoAssignment"}
               /\ c.resp.error = ""
               /\ c.resp.data # NullRow
               /\ Len(c.notifs) = 1
               /\ c.notifs[1].payload.task_id = c.resp.data.id
               /\ c.notifs[1].payload.user_id = c.resp.data.assigned_to
  /\ justDone.op \in {"addTodo", "updateTodoAssignment", "deleteTodo",
                      "updateTodoDueDate"}
       => /\ justDone.error # "" => justDone.notifs = <<>>
          /\ justDone.notifs # <<>>
               => /\ justDone.data # NullRow
                  /\ Len(justDone.notifs) = 1
                  /\ justDone.notifs[1].payload.task_id = justDone.data.id
                  /\ justDone.notifs[1].payload.user_id =
                       justDone.data.assigned_to

\* addTodo has sent the notification for the row its insert returned
C29_DispatchedForStoredRow ==
  \E i \in 1..Len(calls) :
    /\ calls[i].op = "addTodo"
    /\ calls[i].pc = "notify"
    /\ calls[i].resp.data \in store
    /\ calls[i].notifs[1].payload.task_id = calls[i].resp.data.id


\* C26: the filter 'all' shows the collection itself, 'assignedToMe' exactly
\* the tasks assigned to the user and 'createdByMe' exactly the tasks the
\* user owns, each in the order of the collection; choosing a filter leaves
\* the collection as it is.
C26_FiltersSelectExactly ==
  /\ [](/\ currentFilter = "all" => filteredTodos = todos
        /\ currentFilter = "assignedToMe"
             => filteredTodos = SelectSeq(todos, LAMBDA x : x.assigned_to = Me)
        /\ currentFilter = "createdByMe"
             => filteredTodos = SelectSeq(todos, LAMBDA x : x.user_id = Me))
  /\ [][setCurrentFilter => todos' = todos]_vars

\* 'assignedToMe' chosen on a collection holding one task assigned to the
\* user and one the user owns
C26_AssignedShown ==
  /\ currentFilter = "assignedToMe"
  /\ Len(todos) = 2
  /\ Len(filteredTodos) = 1
  /\ filteredTodos[1].assigned_to = Me
  /\ \E k \in 1..2 : todos[k].user_id = Me

\* C28: a notification that an INSERT event put in the local view while a
\* markAsRead or markAllAsRead awaits the store is still in the view once the
\* call has applied its change: every entry the view holds just before the
\* change is applied is in it afterwards.
C28_NoLostNotification ==
  [][(markDone'.op \in {"markAsRead", "markAllAsRead"} /\ markDone'.error = "")
       => \A k \in 1..Len(notifications) :
            \E j \in 1..Len(notifications') :
              notifications'[j].id = notifications[k].id]_vars


\* C25: when the load of fetchTodos succeeds the local collection is exactly
\* the rows it loaded, the rows of the store the user may see, newest first,
\* whatever the collection held before; when the load fails the collection is
\* left as it was.
C25_SnapshotReplaces ==
  /\ [](justDone.op = "fetchTodos"
          => IF justDone.ok
             THEN /\ todos = justDone.data
                  /\ \A k \in 1..(Len(todos) - 1) :
                       todos[k].inserted_at > todos[k + 1].inserted_at
             ELSE todos = justDone.before)
  /\ [][(fetchTodos_Exec /\ fetch'.ok)
          => /\ {fetch'.data[k] : k \in 1..Len(fetch'.data)} =
                  {r \in store : CanSee(Me, r)}
             /\ Len(fetch'.data) = Cardinality({r \in store : CanSee(Me, r)})]_vars

\* two rows loaded over a collection that an event had already filled
C25_LoadedOverEvents ==
  /\ justDone.op = "fetchTodos"
  /\ justDone.ok
  /\ justDone.before # <<>>
  /\ justDone.before # todos
  /\ Len(todos) = 2


\* the first copy as step k of the replay left it
ReplayAfter(k) ==
  IF k = Len(replayLog) THEN replayA ELSE replayLog[k + 1].before

\* C23: an UPDATE event puts its row in the place of the entry with the same
\* id, leaves every other entry and the order as they are, and changes
\* nothing when no entry has that id; after two UPDATE events for one id the
\* entry is the row of the later one.
C23_UpdateInPlace ==
  /\ \A k \in 1..Len(replayLog) :
       LET e == replayLog[k].event
           b == replayLog[k].before
           a == ReplayAfter(k)
       IN e.eventType = "UPDATE"
            => /\ Len(a) = Len(b)
               /\ \A j \in 1..Len(b) :
                    a[j] = IF b[j].id = e.new.id THEN e.new ELSE b[j]
               /\ (\A j \in 1..Len(b) : b[j].id # e.new.id) => a = b
  /\ \A k \in 1..(Len(replayLog) - 1) :
       LET e1 == replayLog[k].event
           e2 == replayLog[k + 1].event
           a == ReplayAfter(k + 1)
       IN (/\ e1.eventType = "UPDATE"
           /\ e2.eventType = "UPDATE"
           /\ e1.new.id = e2.new.id)
            => \A j \in 1..Len(a) : a[j].id = e2.new.id => a[j] = e2.new

\* two different UPDATE events for one task of a collection of two
C23_UpdatedTwice ==
  /\ Len(replayLog) = 2
  /\ replayLog[1].event.eventType = "UPDATE"
  /\ replayLog[2].event.eventType = "UPDATE"
  /\ replayLog[1].event.new.id = replayLog[2].event.new.id
  /\ replayLog[1].event.new # replayLog[2].event.new
  /\ Len(replayA) = 2
  /\ \E j \in 1..2 : replayA[j] = replayLog[2].event.new

\* C24: a DELETE event removes the entry with its id and keeps the other
\* entries in their order; it changes nothing when no entry has that id, as
\* when it echoes a deleteTodo that has already removed the task locally.
C24_DeleteRemovesOnlyItsTask ==
  /\ \A k \in 1..Len(replayLog) :
       LET e == replayLog[k].event
           b == replayLog[k].before
           a == ReplayAfter(k)
       IN e.eventType = "DELETE"
            => /\ a = SelectSeq(b, LAMBDA t : t.id # e.old.id)
               /\ (\A j \in 1..Len(b) : b[j].id # e.old.id) => a = b
  /\ \A k \in 1..(Len(replayLog) - 1) :
       LET e1 == replayLog[k].event
           e2 == replayLog[k + 1].event
       IN (/\ e1.eventType = "LOCAL_DELETE"
           /\ e2.eventType = "DELETE"
           /\ e1.old.id = e2.old.id)
            => ReplayAfter(k + 1) = replayLog[k + 1].before

\* the DELETE event of a task that deleteTodo had removed from a collection
\* of two
C24_EchoAfterLocalDelete ==
  /\ Len(replayLog) = 2
  /\ replayLog[1].event.eventType = "LOCAL_DELETE"
  /\ replayLog[2].event.eventType = "DELETE"
  /\ replayLog[1].event.old.id = replayLog[2].event.old.id
  /\ Len(replayLog[1].before) = 2
  /\ Len(replayA) = 1


\* C30: once every feed event is delivered and no toggle awaits the store,
\* the completion state each rendered row displays is the is_complete flag
\* of its task's entry in the local collection.
C30_RowShowsCollectionFlag ==
  (feed = <<>> /\ toggles = <<>>)
    => \A k \in 1..Len(todos) :
         todos[k].id \in DOMAIN isCompleted
           => isCompleted[todos[k].id] = todos[k].is_complete

====
